---- MODULE Spec2Model ----
(***************************************************************************)
(* Model of backend/app.py: the lazy detector registry (get_detector) and  *)
(* the /analyze request handler.  Each worker thread of the server runs    *)
(* one request at a time; the registry `detectors` and the upload          *)
(* directory are shared by all threads.                                    *)
(***************************************************************************)
EXTENDS Integers, Sequences, FiniteSets, TLC

(* ------------------------------------------------------------------ *)
(* Bounds of the model                                                 *)
(* ------------------------------------------------------------------ *)

\* total number of /analyze requests the model lets the server receive
MaxRequests == 2

\* largest number of frames sample_frames returns in the model
MaxFrames == 7

\* worker threads of the server (app.run serves each request in its own thread)
Threads == {"t1", "t2"}

(* ------------------------------------------------------------------ *)
(* Configuration (config.py)                                           *)
(* ------------------------------------------------------------------ *)

MODEL_NAMES == <<"model_a", "model_b">>

ALLOWED_EXTENSIONS == {"mp4", "mov"}

\* identifiers a client may send in the model_name form field
AllNames == {"model_a", "model_b", "not_a_model"}

\* number of leading frames that get a thumbnail: frames[:6]
ThumbLimit == 6

Range(s) == {s[i] : i \in 1..Len(s)}

Min(a, b) == IF a < b THEN a ELSE b

(* ------------------------------------------------------------------ *)
(* Requests                                                            *)
(* ------------------------------------------------------------------ *)

\* A file name is a sequence of tokens; "." and "/" are the separator characters.
FileNames ==
  { <<>>,
    <<"..", "/", "clip", ".", "MOV">>,
    <<"notes", ".", "txt">>,
    <<"clip">> }

\* hasFile: 'file' in request.files; filename: file.filename;
\* form: <<>> when the form has no model_name field, <<m>> when it carries m
Requests ==
  { [hasFile |-> FALSE, filename |-> <<>>, form |-> f] :
      f \in {<<>>} \cup {<<m>> : m \in AllNames} }
  \cup
  { [hasFile |-> TRUE, filename |-> n, form |-> f] :
      n \in FileNames, f \in {<<>>} \cup {<<m>> : m \in AllNames} }

NoReq == [hasFile |-> FALSE, filename |-> <<>>, form |-> <<>>]

(* ------------------------------------------------------------------ *)
(* Collaborators                                                       *)
(* ------------------------------------------------------------------ *)

Lower(tok) == IF tok = "MOV" THEN "mov" ELSE IF tok = "MP4" THEN "mp4" ELSE tok

\* video_utils.allowed_file: the text after the last "." , lower-cased, is allowed
allowed_file(name, allowed) ==
  /\ Len(name) >= 2
  /\ name[Len(name) - 1] = "."
  /\ Lower(name[Len(name)]) \in allowed

RECURSIVE StripLead(_)
StripLead(s) ==
  IF s # <<>> /\ Head(s) \in {".", "..", "_"} THEN StripLead(Tail(s)) ELSE s

\* werkzeug secure_filename: path separators become "_", leading dots and
\* underscores are stripped
secure_filename(name) ==
  StripLead([i \in 1..Len(name) |-> IF name[i] = "/" THEN "_" ELSE name[i]])

\* video_utils.frame_to_base64_bgr: the encoding of one frame
frame_to_base64_bgr(f) == <<"b64", f>>

\* the numbers of frames sample_frames returns in the model
FrameCounts == {0, 2, MaxFrames}

\* the lengths of the score list predict_frames returns for n frames: one
\* score per frame, one too few, one too many
ScoreLens(n) == {n - 1, n, n + 1}

\* the score of the i-th entry of a score list
ScoreAt(i) == (3 * i) % 10

\* DeepfakeDetector.predict_frames: a list of k scores
predict_frames(k) == [i \in 1..k |-> ScoreAt(i)]

RECURSIVE SumSeq(_)
SumSeq(s) == IF s = <<>> THEN 0 ELSE Head(s) + SumSeq(Tail(s))

\* DeepfakeDetector.aggregate: a summary of the scores
aggregate(s) == [count |-> Len(s), total |-> SumSeq(s)]

NoAgg == [count |-> 0, total |-> 0]

(* ------------------------------------------------------------------ *)
(* Messages                                                            *)
(* ------------------------------------------------------------------ *)

OK == <<>>

NoFilePartMsg == <<"no file part">>

NoSelectedFileMsg == <<"no selected file">>

AllowedExtMsg == <<"allowed extensions", "mp4", "mov">>

NoFramesMsg == <<"no frames extracted">>

\* f"Unknown model '{model_name}'. Available: {MODEL_NAMES}"
UnknownModelMsg(m) == <<"Unknown model", m, "Available">> \o MODEL_NAMES

SaveFailed == <<"save failed">>

SampleFailed == <<"sample failed">>

CtorFailed == <<"constructor failed">>

PredictFailed == <<"predict failed">>

AggregateFailed == <<"aggregate failed">>

EncodeFailed == <<"encode failed">>

StepNames ==
  {"validate", "save", "sample", "resolve", "construct", "store", "lookup",
   "predict", "aggregate", "respond"}

(* ------------------------------------------------------------------ *)
(* State                                                               *)
(* ------------------------------------------------------------------ *)

VARIABLES
  detectors,   \* the registry: model name -> instance id, 0 when absent
  built,       \* built[i] is the model_name instance i was constructed with
  ctorCalls,   \* model name -> number of DeepfakeDetector(...) calls
  uploads,     \* files in UPLOAD_DIR: <<uid, filename>>
  started,     \* number of requests received
  pc,          \* thread -> position in analyze / get_detector
  req,         \* thread -> the request it is handling
  model_name,  \* thread -> local model_name
  saved_name,  \* thread -> local saved_name, <<>> before file.save
  frames,      \* thread -> local frames
  newInst,     \* thread -> instance just constructed, not yet stored
  det,         \* thread -> local det (instance id)
  scores,      \* thread -> local scores
  agg,         \* thread -> local agg
  resp,        \* thread -> the response of its request
  ran,         \* thread -> step -> times the step ran in this request
  nresp,       \* thread -> responses produced for this request
  raised,      \* thread -> <<msg>> when a step of this request raised msg
  gdArg,       \* thread -> <<m>> when this request called get_detector(m)
  added,       \* thread -> registry keys this request stored
  requested,   \* model names get_detector has been called with
  returned,    \* model name -> instances get_detector has returned for it
  firstStored  \* model name -> first instance stored for it, 0 when none

shared == <<detectors, built, ctorCalls, uploads, started>>

locals == <<model_name, saved_name, frames, newInst, det, scores, agg>>

history == <<ran, nresp, raised, gdArg, added, requested, returned, firstStored>>

vars == <<shared, pc, req, locals, resp, history>>

NoResp == [status |-> 0]

Init ==
  /\ detectors = [m \in AllNames |-> 0]
  /\ built = <<>>
  /\ ctorCalls = [m \in AllNames |-> 0]
  /\ uploads = {}
  /\ started = 0
  /\ pc = [t \in Threads |-> "idle"]
  /\ req = [t \in Threads |-> NoReq]
  /\ model_name = [t \in Threads |-> ""]
  /\ saved_name = [t \in Threads |-> <<>>]
  /\ frames = [t \in Threads |-> <<>>]
  /\ newInst = [t \in Threads |-> 0]
  /\ det = [t \in Threads |-> 0]
  /\ scores = [t \in Threads |-> <<>>]
  /\ agg = [t \in Threads |-> NoAgg]
  /\ resp = [t \in Threads |-> NoResp]
  /\ ran = [t \in Threads |-> [s \in StepNames |-> 0]]
  /\ nresp = [t \in Threads |-> 0]
  /\ raised = [t \in Threads |-> <<>>]
  /\ gdArg = [t \in Threads |-> <<>>]
  /\ added = [t \in Threads |-> {}]
  /\ requested = {}
  /\ returned = [m \in AllNames |-> {}]
  /\ firstStored = [m \in AllNames |-> 0]


(* ------------------------------------------------------------------ *)
(* Pure parts of the handler                                           *)
(* ------------------------------------------------------------------ *)

\* a validation without the two missing-file returns
ValidateUpload_NoFileCheck(r) ==
  IF ~allowed_file(r.filename, ALLOWED_EXTENSIONS) THEN AllowedExtMsg ELSE OK

\* a validation without the extension return
ValidateUpload_NoExtCheck(r) ==
  IF ~r.hasFile THEN NoFilePartMsg
  ELSE IF r.filename = <<>> THEN NoSelectedFileMsg
  ELSE OK

\* analyze, the three validation returns: OK or the message of the 400 response
ValidateUpload(r) ==
  IF ~r.hasFile THEN NoFilePartMsg
  ELSE IF r.filename = <<>> THEN NoSelectedFileMsg
  ELSE IF ~allowed_file(r.filename, ALLOWED_EXTENSIONS) THEN AllowedExtMsg
  ELSE OK

\* a default that takes the last configured model
FormModel_Last(r) == IF r.form = <<>> THEN MODEL_NAMES[Len(MODEL_NAMES)] ELSE r.form[1]

\* request.form.get("model_name", MODEL_NAMES[0])
FormModel(r) == IF r.form = <<>> THEN MODEL_NAMES[1] ELSE r.form[1]

\* a get_detector without the membership test
IsKnownModel_Any(m) == TRUE

\* get_detector: model_name in MODEL_NAMES
IsKnownModel(m) == m \in Range(MODEL_NAMES)

\* a get_detector that never finds the cached instance
NotLoaded_Always(m) == TRUE

\* get_detector: model_name not in detectors
NotLoaded(m) == detectors[m] = 0

\* uuid4()[:8]: a prefix no stored upload carries
NewUid == Cardinality(uploads) + 1

\* a thumbnails loop over all the frames
Thumbnails_All(fs, sc) ==
  [i \in 1..Len(fs) |->
     [index |-> i - 1,
      img_b64 |-> frame_to_base64_bgr(fs[i]),
      score |-> IF i - 1 < Len(sc) THEN <<sc[i]>> ELSE <<>>]]

\* a thumbnails loop that counts from one
Thumbnails_IndexFromOne(fs, sc) ==
  [i \in 1..Min(ThumbLimit, Len(fs)) |->
     [index |-> i,
      img_b64 |-> frame_to_base64_bgr(fs[i]),
      score |-> IF i - 1 < Len(sc) THEN <<sc[i]>> ELSE <<>>]]

\* the thumbnails loop over enumerate(frames[:6])
Thumbnails(fs, sc) ==
  [i \in 1..Min(ThumbLimit, Len(fs)) |->
     [index |-> i - 1,
      img_b64 |-> frame_to_base64_bgr(fs[i]),
      score |-> IF i - 1 < Len(sc) THEN <<sc[i]>> ELSE <<>>]]

\* the response dictionary of a successful request
Response(fname, m, fs, sc, ag) ==
  [status |-> 200,
   filename |-> fname,
   model_used |-> m,
   num_frames |-> Len(fs),
   frame_scores |-> sc,
   aggregate |-> ag,
   thumbnails |-> Thumbnails(fs, sc)]

ErrorResponse(code, msg) == [status |-> code, error |-> msg]

(* ------------------------------------------------------------------ *)
(* Building blocks of the actions                                      *)
(* ------------------------------------------------------------------ *)

Ran(t, s) == ran' = [ran EXCEPT ![t][s] = @ + 1]

\* the request of thread t returns r: its locals go out of scope
Reply(t, r) ==
  /\ resp' = [resp EXCEPT ![t] = r]
  /\ nresp' = [nresp EXCEPT ![t] = @ + 1]
  /\ pc' = [pc EXCEPT ![t] = "done"]
  /\ model_name' = [model_name EXCEPT ![t] = ""]
  /\ saved_name' = [saved_name EXCEPT ![t] = <<>>]
  /\ frames' = [frames EXCEPT ![t] = <<>>]
  /\ newInst' = [newInst EXCEPT ![t] = 0]
  /\ det' = [det EXCEPT ![t] = 0]
  /\ scores' = [scores EXCEPT ![t] = <<>>]
  /\ agg' = [agg EXCEPT ![t] = NoAgg]

\* a handler that answers 400 instead of 500
HandleException_BadRequest(t, msg) ==
  /\ raised' = [raised EXCEPT ![t] = <<msg>>]
  /\ Reply(t, ErrorResponse(400, msg))

\* a handler that sends the scores computed so far along with the error
HandleException_Partial(t, msg) ==
  /\ raised' = [raised EXCEPT ![t] = <<msg>>]
  /\ Reply(t, [status |-> 500, error |-> msg, frame_scores |-> scores[t]])

\* a handler that runs the request again instead of answering
HandleException_Retry(t, msg) ==
  /\ raised' = [raised EXCEPT ![t] = <<msg>>]
  /\ pc' = [pc EXCEPT ![t] = "save"]
  /\ UNCHANGED <<resp, nresp, locals>>

\* except Exception as e: return jsonify({"error": str(e)}), 500
HandleException(t, msg) ==
  /\ raised' = [raised EXCEPT ![t] = <<msg>>]
  /\ Reply(t, ErrorResponse(500, msg))

(* ------------------------------------------------------------------ *)
(* analyze                                                             *)
(* ------------------------------------------------------------------ *)

\* a request arrives at thread t: the validation of the upload and the
\* choice of the model name
Receive(t) ==
  /\ pc[t] \in {"idle", "done"}
  /\ started < MaxRequests
  /\ \E r \in Requests :
       /\ req' = [req EXCEPT ![t] = r]
       /\ started' = started + 1
       /\ ran' = [ran EXCEPT ![t] =
                    [s \in StepNames |-> IF s = "validate" THEN 1 ELSE 0]]
       /\ raised' = [raised EXCEPT ![t] = <<>>]
       /\ gdArg' = [gdArg EXCEPT ![t] = <<>>]
       /\ added' = [added EXCEPT ![t] = {}]
       /\ IF ValidateUpload(r) # OK
            THEN /\ resp' = [resp EXCEPT ![t] = ErrorResponse(400, ValidateUpload(r))]
                 /\ nresp' = [nresp EXCEPT ![t] = 1]
                 /\ pc' = [pc EXCEPT ![t] = "done"]
                 /\ UNCHANGED model_name
            ELSE /\ resp' = [resp EXCEPT ![t] = NoResp]
                 /\ nresp' = [nresp EXCEPT ![t] = 0]
                 /\ pc' = [pc EXCEPT ![t] = "save"]
                 /\ model_name' = [model_name EXCEPT ![t] = FormModel(r)]
  /\ UNCHANGED <<detectors, built, ctorCalls, uploads>>
  /\ UNCHANGED <<saved_name, frames, newInst, det, scores, agg>>
  /\ UNCHANGED <<requested, returned, firstStored>>

\* secure_filename, the uid prefix and file.save
Save(t) ==
  /\ pc[t] = "save"
  /\ Ran(t, "save")
  /\ \/ /\ HandleException(t, SaveFailed)
        /\ UNCHANGED uploads
     \/ /\ saved_name' = [saved_name EXCEPT ![t] =
                            <<NewUid, secure_filename(req[t].filename)>>]
        /\ uploads' = uploads \cup {<<NewUid, secure_filename(req[t].filename)>>}
        /\ pc' = [pc EXCEPT ![t] = "sample"]
        /\ UNCHANGED <<model_name, frames, newInst, det, scores, agg>>
        /\ UNCHANGED <<resp, nresp, raised>>
  /\ UNCHANGED <<detectors, built, ctorCalls, started, req>>
  /\ UNCHANGED <<gdArg, added, requested, returned, firstStored>>

\* a handler without the empty-frames return
Sample_NoEmptyCheck(t) ==
  /\ pc[t] = "sample"
  /\ Ran(t, "sample")
  /\ \/ HandleException(t, SampleFailed)
     \/ \E n \in FrameCounts :
          /\ frames' = [frames EXCEPT ![t] = [i \in 1..n |-> i]]
          /\ pc' = [pc EXCEPT ![t] = "resolve"]
          /\ UNCHANGED <<model_name, saved_name, newInst, det, scores, agg>>
          /\ UNCHANGED <<resp, nresp, raised>>
  /\ UNCHANGED <<shared, req>>
  /\ UNCHANGED <<gdArg, added, requested, returned, firstStored>>

\* sample_frames and the empty-frames return
Sample(t) ==
  /\ pc[t] = "sample"
  /\ Ran(t, "sample")
  /\ \/ HandleException(t, SampleFailed)
     \/ \E n \in FrameCounts :
          IF n = 0
            THEN /\ Reply(t, ErrorResponse(400, NoFramesMsg))
                 /\ UNCHANGED raised
            ELSE /\ frames' = [frames EXCEPT ![t] = [i \in 1..n |-> i]]
                 /\ pc' = [pc EXCEPT ![t] = "resolve"]
                 /\ UNCHANGED <<model_name, saved_name, newInst, det, scores, agg>>
                 /\ UNCHANGED <<resp, nresp, raised>>
  /\ UNCHANGED <<shared, req>>
  /\ UNCHANGED <<gdArg, added, requested, returned, firstStored>>

(* ------------------------------------------------------------------ *)
(* get_detector, called from analyze                                   *)
(* ------------------------------------------------------------------ *)

\* the call, the membership test against MODEL_NAMES and the test
\* "model_name not in detectors"
GetDetectorCheck(t) ==
  /\ pc[t] = "resolve"
  /\ Ran(t, "resolve")
  /\ gdArg' = [gdArg EXCEPT ![t] = <<model_name[t]>>]
  /\ requested' = requested \cup {model_name[t]}
  /\ IF ~IsKnownModel(model_name[t])
       THEN HandleException(t, UnknownModelMsg(model_name[t]))
       ELSE /\ pc' = [pc EXCEPT ![t] =
                        IF NotLoaded(model_name[t]) THEN "construct" ELSE "lookup"]
            /\ UNCHANGED <<locals, resp, nresp, raised>>
  /\ UNCHANGED <<shared, req, added, returned, firstStored>>

\* a get_detector that registers the entry before the constructor has
\* succeeded
Construct_Placeholder(t) ==
  /\ pc[t] = "construct"
  /\ Ran(t, "construct")
  /\ ctorCalls' = [ctorCalls EXCEPT ![model_name[t]] = @ + 1]
  /\ detectors' = [detectors EXCEPT ![model_name[t]] = Len(built) + 1]
  /\ \/ /\ HandleException(t, CtorFailed)
        /\ UNCHANGED built
     \/ /\ built' = Append(built, model_name[t])
        /\ newInst' = [newInst EXCEPT ![t] = Len(built) + 1]
        /\ pc' = [pc EXCEPT ![t] = "store"]
        /\ UNCHANGED <<model_name, saved_name, frames, det, scores, agg>>
        /\ UNCHANGED <<resp, nresp, raised>>
  /\ UNCHANGED <<uploads, started, req>>
  /\ UNCHANGED <<gdArg, added, requested, returned, firstStored>>

\* DeepfakeDetector(model_name=model_name): the right-hand side of the store
Construct(t) ==
  /\ pc[t] = "construct"
  /\ Ran(t, "construct")
  /\ ctorCalls' = [ctorCalls EXCEPT ![model_name[t]] = @ + 1]
  /\ \/ /\ HandleException(t, CtorFailed)
        /\ UNCHANGED built
     \/ /\ built' = Append(built, model_name[t])
        /\ newInst' = [newInst EXCEPT ![t] = Len(built) + 1]
        /\ pc' = [pc EXCEPT ![t] = "store"]
        /\ UNCHANGED <<model_name, saved_name, frames, det, scores, agg>>
        /\ UNCHANGED <<resp, nresp, raised>>
  /\ UNCHANGED <<detectors, uploads, started, req>>
  /\ UNCHANGED <<gdArg, added, requested, returned, firstStored>>

\* a get_detector that returns the new instance without caching it
Store_Skip(t) ==
  /\ pc[t] = "store"
  /\ Ran(t, "store")
  /\ returned' = [returned EXCEPT ![model_name[t]] = @ \cup {newInst[t]}]
  /\ det' = [det EXCEPT ![t] = newInst[t]]
  /\ newInst' = [newInst EXCEPT ![t] = 0]
  /\ pc' = [pc EXCEPT ![t] = "predict"]
  /\ UNCHANGED <<shared, req>>
  /\ UNCHANGED <<model_name, saved_name, frames, scores, agg>>
  /\ UNCHANGED <<resp, nresp, raised, gdArg, added, requested, firstStored>>

\* detectors[model_name] = <the new instance>
Store(t) ==
  /\ pc[t] = "store"
  /\ Ran(t, "store")
  /\ detectors' = [detectors EXCEPT ![model_name[t]] = newInst[t]]
  /\ added' = [added EXCEPT ![t] = @ \cup {model_name[t]}]
  /\ firstStored' = [firstStored EXCEPT ![model_name[t]] =
                       IF @ = 0 THEN newInst[t] ELSE @]
  /\ newInst' = [newInst EXCEPT ![t] = 0]
  /\ pc' = [pc EXCEPT ![t] = "lookup"]
  /\ UNCHANGED <<built, ctorCalls, uploads, started, req>>
  /\ UNCHANGED <<model_name, saved_name, frames, det, scores, agg>>
  /\ UNCHANGED <<resp, nresp, raised, gdArg, requested, returned>>

\* return detectors[model_name], bound to det in analyze
GetDetectorReturn(t) ==
  /\ pc[t] = "lookup"
  /\ Ran(t, "lookup")
  /\ det' = [det EXCEPT ![t] = detectors[model_name[t]]]
  /\ returned' = [returned EXCEPT ![model_name[t]] = @ \cup {detectors[model_name[t]]}]
  /\ pc' = [pc EXCEPT ![t] = "predict"]
  /\ UNCHANGED <<shared, req>>
  /\ UNCHANGED <<model_name, saved_name, frames, newInst, scores, agg>>
  /\ UNCHANGED <<resp, nresp, raised, gdArg, added, requested, firstStored>>

(* ------------------------------------------------------------------ *)
(* analyze, after the detector is resolved                             *)
(* ------------------------------------------------------------------ *)

\* scores = det.predict_frames(frames)
Predict(t) ==
  /\ pc[t] = "predict"
  /\ Ran(t, "predict")
  /\ \/ HandleException(t, PredictFailed)
     \/ \E k \in ScoreLens(Len(frames[t])) :
          /\ scores' = [scores EXCEPT ![t] = predict_frames(k)]
          /\ pc' = [pc EXCEPT ![t] = "aggregate"]
          /\ UNCHANGED <<model_name, saved_name, frames, newInst, det, agg>>
          /\ UNCHANGED <<resp, nresp, raised>>
  /\ UNCHANGED <<shared, req>>
  /\ UNCHANGED <<gdArg, added, requested, returned, firstStored>>

\* agg = det.aggregate(scores)
Aggregate(t) ==
  /\ pc[t] = "aggregate"
  /\ Ran(t, "aggregate")
  /\ \/ HandleException(t, AggregateFailed)
     \/ /\ agg' = [agg EXCEPT ![t] = aggregate(scores[t])]
        /\ pc' = [pc EXCEPT ![t] = "respond"]
        /\ UNCHANGED <<model_name, saved_name, frames, newInst, det, scores>>
        /\ UNCHANGED <<resp, nresp, raised>>
  /\ UNCHANGED <<shared, req>>
  /\ UNCHANGED <<gdArg, added, requested, returned, firstStored>>

\* the thumbnails, the response dictionary and the 200 return
Respond(t) ==
  /\ pc[t] = "respond"
  /\ Ran(t, "respond")
  /\ \/ HandleException(t, EncodeFailed)
     \/ /\ Reply(t, Response(saved_name[t][2], model_name[t], frames[t],
                             scores[t], agg[t]))
        /\ UNCHANGED raised
  /\ UNCHANGED <<shared, req>>
  /\ UNCHANGED <<gdArg, added, requested, returned, firstStored>>

(* ------------------------------------------------------------------ *)
(* Specifications                                                      *)
(* ------------------------------------------------------------------ *)

Next ==
  \E t \in Threads :
    \/ Receive(t)
    \/ Save(t)
    \/ Sample(t)
    \/ GetDetectorCheck(t)
    \/ Construct(t)
    \/ Store(t)
    \/ GetDetectorReturn(t)
    \/ Predict(t)
    \/ Aggregate(t)
    \/ Respond(t)

Spec == Init /\ [][Next]_vars

\* the model an earlier request has loaded in InitWarm
WarmModel == MODEL_NAMES[1]

\* the server after one successful request for WarmModel: its upload is in
\* the upload directory, its detector is instance 1 of the registry, and no
\* request is running
InitWarm ==
  /\ detectors = [m \in AllNames |-> IF m = WarmModel THEN 1 ELSE 0]
  /\ built = <<WarmModel>>
  /\ ctorCalls = [m \in AllNames |-> IF m = WarmModel THEN 1 ELSE 0]
  /\ uploads = {<<1, <<"clip", ".", "MOV">>>>}
  /\ started = 0
  /\ pc = [t \in Threads |-> "idle"]
  /\ req = [t \in Threads |-> NoReq]
  /\ model_name = [t \in Threads |-> ""]
  /\ saved_name = [t \in Threads |-> <<>>]
  /\ frames = [t \in Threads |-> <<>>]
  /\ newInst = [t \in Threads |-> 0]
  /\ det = [t \in Threads |-> 0]
  /\ scores = [t \in Threads |-> <<>>]
  /\ agg = [t \in Threads |-> NoAgg]
  /\ resp = [t \in Threads |-> NoResp]
  /\ ran = [t \in Threads |-> [s \in StepNames |-> 0]]
  /\ nresp = [t \in Threads |-> 0]
  /\ raised = [t \in Threads |-> <<>>]
  /\ gdArg = [t \in Threads |-> <<>>]
  /\ added = [t \in Threads |-> {}]
  /\ requested = {WarmModel}
  /\ returned = [m \in AllNames |-> IF m = WarmModel THEN {1} ELSE {}]
  /\ firstStored = [m \in AllNames |-> IF m = WarmModel THEN 1 ELSE 0]

\* overlapping requests on a server that has already loaded WarmModel
SpecWarm == InitWarm /\ [][Next]_vars

\* no other thread is inside a request
Quiet(t) == \A u \in Threads \ {t} : pc[u] \in {"idle", "done"}

\* the requests do not overlap: one is received only when none is running
NextSeq ==
  \E t \in Threads :
    \/ Quiet(t) /\ Receive(t)
    \/ Save(t)
    \/ Sample(t)
    \/ GetDetectorCheck(t)
    \/ Construct(t)
    \/ Store(t)
    \/ GetDetectorReturn(t)
    \/ Predict(t)
    \/ Aggregate(t)
    \/ Respond(t)

SpecSeq == Init /\ [][NextSeq]_vars


(* ------------------------------------------------------------------ *)
(* Claims                                                              *)
(* ------------------------------------------------------------------ *)

\* instances constructed with model name m
InstancesOf(m) == {i \in 1..Len(built) : built[i] = m}

Finished(t) == pc[t] = "done"

\* C1: concurrent first requests for the same valid model construct exactly
\* one detector: no model name ever has two constructed instances.
C1_OneConstructionPerModel ==
  \A m \in Range(MODEL_NAMES) : Cardinality(InstancesOf(m)) <= 1

C3_UnknownModelRejected ==
  [][\A t \in Threads :
       (/\ pc[t] = "resolve"
        /\ pc'[t] # "resolve"
        /\ model_name[t] \notin Range(MODEL_NAMES))
       => /\ raised'[t] = <<UnknownModelMsg(model_name[t])>>
          /\ detectors' = detectors
          /\ ctorCalls' = ctorCalls
          /\ built' = built
          /\ ran'[t]["construct"] = 0
          /\ added'[t] = {}]_vars

\* an unknown model was rejected while the registry held an instance
C3_Witness ==
  \E t \in Threads :
    /\ Finished(t)
    /\ raised[t] = <<UnknownModelMsg("not_a_model")>>
    /\ detectors["model_a"] # 0


\* the request of thread t names a model outside MODEL_NAMES
NamesUnknownModel(t) ==
  req[t].form # <<>> /\ req[t].form[1] \notin Range(MODEL_NAMES)

\* the errors a request can end with before it reaches get_detector
EarlyErrors ==
  { ErrorResponse(400, NoFilePartMsg),
    ErrorResponse(400, NoSelectedFileMsg),
    ErrorResponse(400, AllowedExtMsg),
    ErrorResponse(400, NoFramesMsg),
    ErrorResponse(500, SaveFailed),
    ErrorResponse(500, SampleFailed) }

\* C4 as stated: every request naming an unconfigured model is answered with
\* the 500 UnknownModel error.
C4_Original ==
  \A t \in Threads :
    (Finished(t) /\ NamesUnknownModel(t))
    => resp[t] = ErrorResponse(500, UnknownModelMsg(req[t].form[1]))

\* C4 amended: a request naming an unconfigured model is answered with the
\* 500 UnknownModel error when it reaches detector resolution, and with the
\* error of the earlier step when it does not; in both cases it calls no
\* constructor and stores nothing in the registry.
C4_UnknownModelRequest ==
  \A t \in Threads :
    NamesUnknownModel(t) =>
      /\ ran[t]["construct"] = 0
      /\ ran[t]["store"] = 0
      /\ added[t] = {}
      /\ Finished(t) =>
           IF gdArg[t] # <<>>
             THEN resp[t] = ErrorResponse(500, UnknownModelMsg(req[t].form[1]))
             ELSE resp[t] \in EarlyErrors

\* a request naming an unknown model got the UnknownModel 500 while the
\* registry held an instance, and another one was turned away earlier
C4_Witness ==
  \E t, u \in Threads :
    /\ Finished(t) /\ NamesUnknownModel(t)
    /\ resp[t] = ErrorResponse(500, UnknownModelMsg("not_a_model"))
    /\ Finished(u) /\ NamesUnknownModel(u)
    /\ resp[u] = ErrorResponse(400, NoFramesMsg)

\* the request of thread t has no file part or an empty file name
MissingFile(t) == pc[t] # "idle" /\ (~req[t].hasFile \/ req[t].filename = <<>>)

\* C5: a request without the file field, or with an empty file name, gets the
\* MissingFile 400 error and does nothing else: no save, no sampling, no
\* detector resolution, no registry write.
C5_MissingFileNoEffect ==
  \A t \in Threads :
    MissingFile(t) =>
      /\ Finished(t)
      /\ nresp[t] = 1
      /\ resp[t] = ErrorResponse(400, IF req[t].hasFile THEN NoSelectedFileMsg
                                                      ELSE NoFilePartMsg)
      /\ \A s \in StepNames \ {"validate"} : ran[t][s] = 0
      /\ added[t] = {}

\* one request without a file part and one with an empty file name were answered
C5_Witness ==
  \E t, u \in Threads :
    /\ MissingFile(t) /\ ~req[t].hasFile /\ resp[t].status = 400
    /\ MissingFile(u) /\ req[u].hasFile /\ resp[u].status = 400

\* the request of thread t carries a file name whose extension is not allowed
DisallowedExtension(t) ==
  /\ req[t].hasFile
  /\ req[t].filename # <<>>
  /\ ~allowed_file(req[t].filename, ALLOWED_EXTENSIONS)

\* C6: a request whose extension is outside the allow-list gets the
\* DisallowedExtension 400 error; it samples no frames, constructs no
\* detector and does not write the registry, whatever model it names.
C6_DisallowedExtensionNoWork ==
  \A t \in Threads :
    DisallowedExtension(t) =>
      /\ Finished(t)
      /\ resp[t] = ErrorResponse(400, AllowedExtMsg)
      /\ ran[t]["save"] = 0
      /\ ran[t]["sample"] = 0
      /\ ran[t]["resolve"] = 0
      /\ ran[t]["construct"] = 0
      /\ added[t] = {}

\* two requests with a disallowed extension were answered, one naming a
\* configured model and one naming an unknown model
C6_Witness ==
  \E t, u \in Threads :
    /\ DisallowedExtension(t) /\ req[t].form = <<"model_b">>
    /\ resp[t].status = 400
    /\ DisallowedExtension(u) /\ req[u].form = <<"not_a_model">>
    /\ resp[u].status = 400

\* no request is running
Quiescent == \A t \in Threads : pc[t] \in {"idle", "done"}

\* C7 as stated: the registry holds an instance for m exactly when m has been
\* requested (taken between requests, with "requested" read as "passed to
\* get_detector").
C7_Original ==
  Quiescent => \A m \in AllNames : (detectors[m] # 0 <=> m \in requested)

\* C7 amended: a registry entry for m exists only if m is configured and
\* get_detector(m) has been called; once a get_detector(m) call has returned,
\* the entry exists.  A requested model need not have an entry.
C7_EntryOnlyIfRequested ==
  \A m \in AllNames :
    /\ detectors[m] # 0 => (m \in requested /\ m \in Range(MODEL_NAMES))
    /\ returned[m] # {} => detectors[m] # 0
    /\ detectors[m] # 0 => detectors[m] \in InstancesOf(m)

\* one model is loaded, an unknown one was requested and has no entry
C7_Witness ==
  /\ Quiescent
  /\ detectors["model_b"] # 0
  /\ returned["model_b"] # {}
  /\ "not_a_model" \in requested
  /\ detectors["not_a_model"] = 0


\* the upload of thread t passed the validation
UploadAccepted(t) ==
  /\ req[t].hasFile
  /\ req[t].filename # <<>>
  /\ allowed_file(req[t].filename, ALLOWED_EXTENSIONS)

\* thread t answered a valid upload with a recognized model and at least one
\* frame, and none of its steps raised
CleanRun(t) ==
  /\ Finished(t)
  /\ UploadAccepted(t)
  /\ ran[t]["resolve"] = 1
  /\ gdArg[t] # <<>>
  /\ gdArg[t][1] \in Range(MODEL_NAMES)
  /\ raised[t] = <<>>

\* C8 as stated: a valid upload with a recognized model and at least one
\* frame (no step raising) is answered 200 with num_frames = len(frame_scores)
\* and len(thumbnails) = min(6, num_frames).
C8_Original ==
  \A t \in Threads :
    CleanRun(t) =>
      /\ resp[t].status = 200
      /\ resp[t].num_frames = Len(resp[t].frame_scores)
      /\ Len(resp[t].thumbnails) = Min(6, resp[t].num_frames)

\* C8 amended: such a request is answered 200 unless a step raises; in a 200
\* response num_frames is the number of sampled frames (at least one),
\* frame_scores is the list predict_frames returned, whatever its length,
\* and len(thumbnails) = min(6, num_frames).
C8_SuccessShape ==
  /\ [](\A t \in Threads :
          /\ CleanRun(t) => resp[t].status = 200
          /\ resp[t].status = 200 =>
               /\ resp[t].num_frames >= 1
               /\ Len(resp[t].thumbnails) = Min(6, resp[t].num_frames))
  /\ [][\A t \in Threads :
          (pc[t] = "respond" /\ resp'[t].status = 200) =>
            /\ resp'[t].num_frames = Len(frames[t])
            /\ resp'[t].frame_scores = scores[t]
            /\ Len(resp'[t].thumbnails) = Min(6, Len(frames[t]))]_vars

\* a 200 response with more than six frames and one score fewer than frames
C8_Witness ==
  \E t \in Threads :
    /\ CleanRun(t)
    /\ resp[t].status = 200
    /\ resp[t].num_frames > 6
    /\ Len(resp[t].thumbnails) = 6
    /\ Len(resp[t].frame_scores) = resp[t].num_frames - 1

\* the steps of a running request
Step(t) ==
  \/ Save(t)
  \/ Sample(t)
  \/ GetDetectorCheck(t)
  \/ Construct(t)
  \/ Store(t)
  \/ GetDetectorReturn(t)
  \/ Predict(t)
  \/ Aggregate(t)
  \/ Respond(t)

\* C9: a request gets exactly one response and no step of it runs twice; a
\* running request can always take its next step; an exception raised at any
\* step ends the request with a 500 response carrying the exception's text.
C9_OneResponseNoRetry ==
  \A t \in Threads :
    /\ \A s \in StepNames : ran[t][s] <= 1
    /\ nresp[t] = IF Finished(t) THEN 1 ELSE 0
    /\ Finished(t) => resp[t].status \in {200, 400, 500}
    /\ pc[t] \notin {"idle", "done"} => (resp[t] = NoResp /\ ENABLED Step(t))
    /\ raised[t] # <<>> =>
         (Finished(t) /\ resp[t] = ErrorResponse(500, raised[t][1]))

\* one request ended by a constructor exception, another by an encoding one
C9_Witness ==
  \E t, u \in Threads :
    /\ Finished(t) /\ resp[t] = ErrorResponse(500, CtorFailed)
    /\ ran[t]["construct"] = 1
    /\ Finished(u) /\ resp[u] = ErrorResponse(500, EncodeFailed)
    /\ ran[u]["respond"] = 1

\* C10: a request without model_name resolves the first configured model;
\* a 200 response names the model get_detector was called with; a request
\* stores no registry entry other than the one for that model.
C10_DefaultAndModelUsed ==
  \A t \in Threads :
    /\ added[t] \subseteq Range(gdArg[t])
    /\ gdArg[t] # <<>> =>
         gdArg[t] = IF req[t].form = <<>> THEN <<MODEL_NAMES[1]>> ELSE req[t].form
    /\ resp[t].status = 200 => resp[t].model_used = gdArg[t][1]

\* a request without model_name succeeded and stored the first model
C10_Witness ==
  \E t \in Threads :
    /\ Finished(t)
    /\ req[t].form = <<>>
    /\ resp[t].status = 200
    /\ resp[t].model_used = "model_a"
    /\ added[t] = {"model_a"}
    /\ detectors["model_b"] = 0

\* thread t answered its request with an error
Failed(t) == Finished(t) /\ resp[t].status \in {400, 500}

\* every request received so far is the finished request of some thread
OnlyFinishedRequests ==
  /\ Quiescent
  /\ started = Cardinality({t \in Threads : Finished(t)})

InlineErrors == {NoFilePartMsg, NoSelectedFileMsg, AllowedExtMsg, NoFramesMsg}

\* the messages of UnknownModel
UnknownModelErrors == {UnknownModelMsg(m) : m \in AllNames}

\* C12 as stated: MissingFile, DisallowedExtension, NoFramesExtracted and
\* UnknownModel end the request with 400; every other error ends it with 500.
C12_Original ==
  \A t \in Threads :
    Failed(t) =>
      (resp[t].status = 400 <=> resp[t].error \in InlineErrors \cup UnknownModelErrors)

\* C12 amended: MissingFile, DisallowedExtension and NoFramesExtracted end
\* the request with 400; UnknownModel and every other raised exception end it
\* with 500.
C12_ErrorStatus ==
  \A t \in Threads :
    Failed(t) =>
      /\ resp[t].status = 400 <=> resp[t].error \in InlineErrors
      /\ resp[t].status = 500 <=> raised[t] = <<resp[t].error>>
      /\ resp[t].error \in UnknownModelErrors => resp[t].status = 500
      /\ (gdArg[t] # <<>> /\ gdArg[t][1] \notin Range(MODEL_NAMES)) =>
           resp[t] = ErrorResponse(500, UnknownModelMsg(gdArg[t][1]))

\* one request ended with the UnknownModel 500, another with the NoFramesExtracted 400
C12_Witness ==
  \E t, u \in Threads :
    /\ Failed(t) /\ resp[t] = ErrorResponse(500, UnknownModelMsg("not_a_model"))
    /\ Failed(u) /\ resp[u] = ErrorResponse(400, NoFramesMsg)

\* C13: no eviction: an instance stored in the registry for an identifier
\* stays stored for it; no step removes the entry or puts another instance
\* in its place.
C13_NoEviction ==
  [][\A m \in AllNames : detectors[m] # 0 => detectors'[m] = detectors[m]]_vars

\* C14: once the registry holds an entry for m, concurrent get_detector(m)
\* calls construct nothing, do not write the registry, and all return the
\* stored instance (here m is WarmModel, stored as instance 1).
C14_CachedLookups ==
  /\ ctorCalls[WarmModel] = 1
  /\ InstancesOf(WarmModel) = {1}
  /\ detectors[WarmModel] = 1
  /\ returned[WarmModel] = {1}
  /\ \A t \in Threads :
       gdArg[t] = <<WarmModel>> =>
         /\ ran[t]["construct"] = 0
         /\ ran[t]["store"] = 0
         /\ added[t] = {}
         /\ pc[t] \in {"predict", "aggregate", "respond"} => det[t] = 1

\* two threads are inside get_detector(WarmModel) at the same time, both
\* about to return the stored instance
C14_Witness ==
  \A t \in Threads :
    /\ pc[t] = "lookup"
    /\ gdArg[t] = <<WarmModel>>
    /\ ran[t]["construct"] = 0

\* C15: the keys of the registry are configured model names, and the
\* instance stored under m was constructed with model_name = m.
C15_KeysAndBinding ==
  \A m \in AllNames :
    detectors[m] # 0 =>
      /\ m \in Range(MODEL_NAMES)
      /\ detectors[m] \in 1..Len(built)
      /\ built[detectors[m]] = m

\* both configured models are loaded, each with its own instance
C15_Witness ==
  /\ detectors["model_a"] # 0
  /\ detectors["model_b"] # 0
  /\ detectors["model_a"] # detectors["model_b"]

\* the positions of analyze after the empty-frames test
AfterSampling == {"resolve", "construct", "store", "lookup", "predict", "aggregate", "respond"}

\* C16: when sampling returns no frames the request ends with the
\* NoFramesExtracted 400 error after its upload was saved and before
\* get_detector: no call, no construction, no registry write, whatever model
\* it names; the model name is only looked at with frames in hand.
C16_NoFramesBeforeResolve ==
  \A t \in Threads :
    /\ pc[t] \in AfterSampling => frames[t] # <<>>
    /\ ran[t]["resolve"] = 1 => (ran[t]["sample"] = 1 /\ ran[t]["save"] = 1)
    /\ (Finished(t) /\ ran[t]["sample"] = 1 /\ ran[t]["resolve"] = 0
          /\ raised[t] = <<>>) =>
         resp[t] = ErrorResponse(400, NoFramesMsg)
    /\ (Finished(t) /\ resp[t] = ErrorResponse(400, NoFramesMsg)) =>
         /\ ran[t]["save"] = 1
         /\ ran[t]["sample"] = 1
         /\ ran[t]["resolve"] = 0
         /\ ran[t]["construct"] = 0
         /\ gdArg[t] = <<>>
         /\ added[t] = {}

\* two requests got the NoFramesExtracted error, one naming a configured
\* model and one an unknown model, and the registry is still empty
C16_Witness ==
  \E t, u \in Threads :
    /\ resp[t] = ErrorResponse(400, NoFramesMsg) /\ req[t].form = <<"model_a">>
    /\ resp[u] = ErrorResponse(400, NoFramesMsg) /\ req[u].form = <<"not_a_model">>
    /\ \A m \in AllNames : detectors[m] = 0
    /\ Cardinality(uploads) = 2

\* C17: in a 200 response the thumbnails are the first min(6, num_frames)
\* frames in order, numbered from 0; thumbnail i carries scores[i] when
\* i < len(scores) and a null score exactly when i >= len(scores); a request
\* about to build its thumbnails can always answer 200, however short the
\* score list is.
C17_ThumbnailScores ==
  \A t \in Threads :
    /\ pc[t] = "respond" => ENABLED (Respond(t) /\ resp'[t].status = 200)
    /\ resp[t].status = 200 =>
         /\ Len(resp[t].thumbnails) = Min(6, resp[t].num_frames)
         /\ \A i \in 1..Len(resp[t].thumbnails) :
              /\ resp[t].thumbnails[i].index = i - 1
              /\ resp[t].thumbnails[i].img_b64 = frame_to_base64_bgr(i)
              /\ i - 1 < Len(resp[t].frame_scores) =>
                   resp[t].thumbnails[i].score = <<resp[t].frame_scores[i]>>
              /\ resp[t].thumbnails[i].score = <<>> <=>
                   i - 1 >= Len(resp[t].frame_scores)

\* a 200 response for two frames and one score: the first thumbnail carries
\* the score, the second a null score
C17_Witness ==
  \E t \in Threads :
    /\ resp[t].status = 200
    /\ resp[t].num_frames = 2
    /\ Len(resp[t].frame_scores) = 1
    /\ resp[t].thumbnails[1].score = <<resp[t].frame_scores[1]>>
    /\ resp[t].thumbnails[2].score = <<>>

\* C18: a constructor that raises for a valid model leaves no registry entry
\* and ends the request with 500; a request skips the construction only when
\* an instance is stored, so a later request constructs again: constructor
\* calls can outnumber the instances, of which at most one is stored.
C18_FailedConstructionRetried ==
  /\ \A m \in Range(MODEL_NAMES) :
       /\ Cardinality(InstancesOf(m)) <= 1
       /\ Cardinality(InstancesOf(m)) <= ctorCalls[m]
       /\ detectors[m] # 0 => detectors[m] \in InstancesOf(m)
  /\ \A t \in Threads :
       /\ raised[t] = <<CtorFailed>> =>
            /\ resp[t] = ErrorResponse(500, CtorFailed)
            /\ gdArg[t][1] \in Range(MODEL_NAMES)
            /\ ran[t]["construct"] = 1
            /\ ran[t]["store"] = 0
            /\ added[t] = {}
       /\ pc[t] = "construct" => detectors[model_name[t]] = 0
       /\ (ran[t]["lookup"] = 1 /\ ran[t]["construct"] = 0) =>
            InstancesOf(gdArg[t][1]) # {}

\* the constructor raised for one request and a later request for the same
\* model constructed it: two constructor calls, one instance
C18_Witness ==
  \E t, u \in Threads : \E m \in Range(MODEL_NAMES) :
    /\ Finished(t) /\ resp[t] = ErrorResponse(500, CtorFailed) /\ gdArg[t] = <<m>>
    /\ Finished(u) /\ resp[u].status = 200 /\ gdArg[u] = <<m>>
    /\ ctorCalls[m] = 2
    /\ Cardinality(InstancesOf(m)) = 1
    /\ detectors[m] \in InstancesOf(m)

====
